---------------------------- MODULE Spec2Model ----------------------------
(***************************************************************************)
(* Depth-optimal synthesis of graph states (16domsim/bachelor-thesis).     *)
(*                                                                         *)
(* The model follows one call of optimize_clifford(circuit,                *)
(* graph_state=True, use_edge_coloring, use_symmetry_breaking,             *)
(* linear_search): the adjacency matrix is parsed from the circuit name,   *)
(* an all-zero matrix returns at once, otherwise _linear_search or         *)
(* _binary_search probes depths with _synthesis (the z3 instance of the    *)
(* chosen encoder) and the winning mapping is turned into a circuit.       *)
(*                                                                         *)
(* Nodes are numbered 0..n-1 as in the source; TLA+ sequences start at 1,  *)
(* so cell [i][j] of a matrix m is m[i+1][j+1] (operator Cell).            *)
(* An edge is the tuple <<i, j>> with i > j, the key the source uses for   *)
(* edge_color / cz_gates.  A mapping (the source's dict from colour to a   *)
(* list of edges) is a sequence of records [color, edges] in the dict's    *)
(* insertion order.                                                        *)
(***************************************************************************)
EXTENDS Integers, Sequences, FiniteSets, TLC

\* Bounds of the model: the graphs are the simple graphs on 1..MaxNodes nodes
\* with at most MaxEdges edges.
MaxNodes == 4
MaxEdges == 2

\* The graphs of the dense specification have up to DenseNodes nodes.
DenseNodes == 3

\* The graphs of the fair specification have up to FairNodes nodes.
FairNodes == 3

VARIABLES
    circuit,                 \* the input QuantumCircuit: [name, data]
    use_edge_coloring,       \* optimize_clifford's encoder flag
    use_symmetry_breaking,
    use_linear_search,
    pc,                      \* "call" | "linear" | "binary" | "done"
    adjacency_matrix,
    depth,                   \* _linear_search's loop variable / returned depth
    solver_calls,
    depth_optimal_mapping,
    minimum_depth,           \* _linear_search
    maximum_depth,
    range_iter,              \* next value of range(minimum_depth, maximum_depth + 1)
    left_bound_depth,        \* _binary_search
    right_bound_depth,
    current_depth,
    mappings_at_depth,
    found_optimal_depth,
    returned_circuit,        \* data of the QuantumCircuit handed back
    result,                  \* the SynthesisResults record
    solver_log               \* history: the _synthesis calls made, in order

vars == <<circuit, use_edge_coloring, use_symmetry_breaking, use_linear_search,
          pc, adjacency_matrix, depth, solver_calls, depth_optimal_mapping,
          minimum_depth, maximum_depth, range_iter, left_bound_depth,
          right_bound_depth, current_depth, mappings_at_depth,
          found_optimal_depth, returned_circuit, result, solver_log>>

-----------------------------------------------------------------------------
(* Matrices, circuits and gates *)

Cell(m, i, j) == m[i + 1][j + 1]

Nodes(n) == 0 .. (n - 1)

NodePairs(n) == {p \in Nodes(n) \X Nodes(n) : p[2] < p[1]}

\* The symmetric, loop-free matrix of a simple graph on n nodes with edge set es.
MatrixOf(n, es) ==
    [r \in 1..n |-> [c \in 1..n |->
        IF <<r - 1, c - 1>> \in es \/ <<c - 1, r - 1>> \in es THEN 1 ELSE 0]]

\* The numbers that appear, in order, in the circuit name "graph: [[..], ..]".
NameOf(m) ==
    LET n == Len(m)
    IN  [k \in 1..(n * n) |-> m[((k - 1) \div n) + 1][((k - 1) % n) + 1]]

Gate(name, qubits) == [name |-> name, qubits |-> qubits]

RECURSIVE HLayer(_, _)
HLayer(q, n) == IF q >= n THEN <<>> ELSE <<Gate("h", <<q>>)>> \o HLayer(q + 1, n)

\* The CZ gates of the upper triangle, row by row.
RECURSIVE CzUpper(_, _, _)
CzUpper(m, i, j) ==
    IF i >= Len(m) THEN <<>>
    ELSE IF j >= Len(m) THEN CzUpper(m, i + 1, i + 2)
    ELSE (IF Cell(m, i, j) = 1 THEN <<Gate("cz", <<i, j>>)>> ELSE <<>>)
         \o CzUpper(m, i, j + 1)

\* The circuits the callers build: GraphState(adjsmat), whose data is either
\* the plain gate list or one composite gate over all qubits.
GraphStateData(m) ==
    { HLayer(0, Len(m)) \o CzUpper(m, 0, 1),
      <<Gate("graph", [q \in 1..Len(m) |-> q - 1])>> }

GraphCircuits(n) ==
    UNION { { [name |-> NameOf(MatrixOf(n, es)), data |-> d] :
                d \in GraphStateData(MatrixOf(n, es)) } :
            es \in {s \in SUBSET NodePairs(n) : Cardinality(s) <= MaxEdges} }

InputCircuits == UNION { GraphCircuits(n) : n \in 1..MaxNodes }

-----------------------------------------------------------------------------
(* utils.py *)

RECURSIVE CountGates(_, _)
CountGates(data, width) ==
    IF data = <<>> THEN 0
    ELSE (IF Len(Head(data).qubits) = width THEN 1 ELSE 0)
         + CountGates(Tail(data), width)

count_single_qubit_gates(data) == CountGates(data, 1)

\* Mutant: counts every gate on two or more qubits (len(qubits) >= 2).
count_two_qubit_gates_AtLeastTwo(data) ==
    Len(data) - CountGates(data, 0) - CountGates(data, 1)

count_two_qubit_gates(data) == CountGates(data, 2)

\* int(len(numbers) ** 0.5)
IntSqrt(k) == CHOOSE r \in 0..k : r * r <= k /\ (r + 1) * (r + 1) > k

extract_adjacency_matrix(numbers) ==
    LET n == IntSqrt(Len(numbers))
    IN  [i \in 1..n |-> [j \in 1..n |-> numbers[(i - 1) * n + j]]]

AllZero(m) == \A i \in 1..Len(m) : \A j \in 1..Len(m[i]) : m[i][j] = 0

-----------------------------------------------------------------------------
(* The variables both encoders declare *)

\* Keys of edge_color / cz_gates, in the order they are created:
\* for i in range(n): for j in range(i): if adjacency_matrix[i][j] == 1.
RECURSIVE EdgeKeysFrom(_, _, _)
EdgeKeysFrom(m, i, j) ==
    IF i >= Len(m) THEN <<>>
    ELSE IF j >= i THEN EdgeKeysFrom(m, i + 1, 0)
    ELSE (IF Cell(m, i, j) = 1 THEN <<(<<i, j>>)>> ELSE <<>>)
         \o EdgeKeysFrom(m, i, j + 1)

EdgeKeys(m) == EdgeKeysFrom(m, 0, 0)

EdgeKeySet(m) == {p \in NodePairs(Len(m)) : Cell(m, p[1], p[2]) = 1}

\* Keys of identities (sat_solvers_synthesis only): the pairs with no edge.
IdentityKeySet(m) == {p \in NodePairs(Len(m)) : Cell(m, p[1], p[2]) # 1}

\* Mutant: result[color] = [(i, j)] -- a colour's list is replaced, not extended.
AddToResultOverwrite(res, color, key) ==
    IF \E k \in 1..Len(res) : res[k].color = color
    THEN [k \in 1..Len(res) |->
            IF res[k].color = color
            THEN [res[k] EXCEPT !.edges = <<key>>]
            ELSE res[k]]
    ELSE Append(res, [color |-> color, edges |-> <<key>>])

\* The dict a satisfying model is turned into: for each key in creation
\* order, the key is appended to the list of its colour, a colour's entry being
\* created the first time the colour is met.
AddToResult(res, color, key) ==
    IF \E k \in 1..Len(res) : res[k].color = color
    THEN [k \in 1..Len(res) |->
            IF res[k].color = color
            THEN [res[k] EXCEPT !.edges = Append(@, key)]
            ELSE res[k]]
    ELSE Append(res, [color |-> color, edges |-> <<key>>])

RECURSIVE ResultOfModel(_, _, _)
ResultOfModel(model, keys, res) ==
    IF keys = <<>> THEN res
    ELSE ResultOfModel(model, Tail(keys),
                       AddToResult(res, model[Head(keys)], Head(keys)))

\* What a check-and-read-back returns: {} when the instance is unsatisfiable,
\* otherwise the dict of any one of its models (the solver picks the model).
SolverOutcomes(models, keys) ==
    IF models = {} THEN {<<>>}
    ELSE {ResultOfModel(model, keys, <<>>) : model \in models}

-----------------------------------------------------------------------------
(* edge_colouring_graph_state_depth_optimal_synthesis._synthesis *)

\* Mutant: the loop over k in range(i) is missing.
EdgeColouringDifferentFirstLoop(m) ==
    UNION { { <<e, (IF e[1] > k THEN <<e[1], k>> ELSE <<k, e[1]>>)>> :
                k \in {x \in 0..(e[2] - 1) : Cell(m, e[1], x) = 1} } :
            e \in EdgeKeySet(m) }

\* The pairs of keys constrained to differ: for every edge (i, j), the loop
\* over k in range(j) and the loop over k in range(i).
EdgeColouringDifferent(m) ==
    UNION { { <<e, (IF e[1] > k THEN <<e[1], k>> ELSE <<k, e[1]>>)>> :
                k \in {x \in 0..(e[2] - 1) : Cell(m, e[1], x) = 1} }
            \cup
            { <<e, (IF e[2] > k THEN <<e[2], k>> ELSE <<k, e[2]>>)>> :
                k \in {x \in 0..(e[1] - 1) : Cell(m, x, e[2]) = 1} } :
            e \in EdgeKeySet(m) }

RECURSIVE SumRow(_)
SumRow(row) == IF row = <<>> THEN 0 ELSE Head(row) + SumRow(Tail(row))

\* Mutant: the last row with the largest sum (count_ones >= max_ones).
RowIndexWithMaxOnesLast(m) ==
    CHOOSE i \in Nodes(Len(m)) :
        /\ \A k \in Nodes(Len(m)) : SumRow(m[k + 1]) <= SumRow(m[i + 1])
        /\ \A k \in (i + 1)..(Len(m) - 1) : SumRow(m[k + 1]) < SumRow(m[i + 1])

\* The first row with the largest sum (count_ones > max_ones is strict).
RowIndexWithMaxOnes(m) ==
    CHOOSE i \in Nodes(Len(m)) :
        /\ \A k \in Nodes(Len(m)) : SumRow(m[k + 1]) <= SumRow(m[i + 1])
        /\ \A k \in 0..(i - 1) : SumRow(m[k + 1]) < SumRow(m[i + 1])

\* Mutant: the colour counter starts at 1.
EdgeColouringFixedFromOne(m) ==
    LET r == RowIndexWithMaxOnes(m)
    IN  { <<(IF r > i THEN <<r, i>> ELSE <<i, r>>),
            1 + Cardinality({k \in 0..(i - 1) : Cell(m, r, k) = 1})>> :
            i \in {c \in Nodes(Len(m)) : Cell(m, r, c) = 1} }

\* Mutant: the colour counter advances by two (color += 2).
EdgeColouringFixedStepTwo(m) ==
    LET r == RowIndexWithMaxOnes(m)
    IN  { <<(IF r > i THEN <<r, i>> ELSE <<i, r>>),
            2 * Cardinality({k \in 0..(i - 1) : Cell(m, r, k) = 1})>> :
            i \in {c \in Nodes(Len(m)) : Cell(m, r, c) = 1} }

\* The pairs <<key, colour>> the symmetry breaker fixes: the edges of that row
\* in column order get the colours 0, 1, 2, ...
EdgeColouringFixed(m) ==
    LET r == RowIndexWithMaxOnes(m)
    IN  { <<(IF r > i THEN <<r, i>> ELSE <<i, r>>),
            Cardinality({k \in 0..(i - 1) : Cell(m, r, k) = 1})>> :
            i \in {c \in Nodes(Len(m)) : Cell(m, r, c) = 1} }

\* Mutant: the colours are bounded by edge_color[..] < depth - 1.
EdgeColouringModelsBelowDepthMinusOne(m, d, sym) ==
    LET different == EdgeColouringDifferent(m)
        fixed == IF sym THEN EdgeColouringFixed(m) ELSE {}
    IN  { a \in [EdgeKeySet(m) -> 0..(d - 2)] :
            /\ \A c \in different : a[c[1]] # a[c[2]]
            /\ \A f \in fixed : a[f[1]] = f[2] }

\* Mutant: the instance also asks that every one of the d colours is used.
EdgeColouringModelsEveryColourUsed(m, d, sym) ==
    LET different == EdgeColouringDifferent(m)
        fixed == IF sym THEN EdgeColouringFixed(m) ELSE {}
    IN  { a \in [EdgeKeySet(m) -> 0..(d - 1)] :
            /\ \A c \in different : a[c[1]] # a[c[2]]
            /\ \A f \in fixed : a[f[1]] = f[2]
            /\ \A colour \in 0..(d - 1) : \E e \in EdgeKeySet(m) : a[e] = colour }

\* The models of the instance, as assignments of a colour to every key.
EdgeColouringModels(m, d, sym) ==
    LET different == EdgeColouringDifferent(m)
        fixed == IF sym THEN EdgeColouringFixed(m) ELSE {}
    IN  { a \in [EdgeKeySet(m) -> 0..(d - 1)] :
            /\ \A c \in different : a[c[1]] # a[c[2]]
            /\ \A f \in fixed : a[f[1]] = f[2] }

edge_colouring_synthesis(m, d, sym) ==
    SolverOutcomes(EdgeColouringModels(m, d, sym), EdgeKeys(m))

-----------------------------------------------------------------------------
(* sat_solvers_synthesis._synthesis *)

\* Mutant: the loop over k in range(i) is missing.
SatSolverDifferentFirstLoop(m) ==
    UNION { { <<e, (<<e[1], k>>)>> :
                k \in {x \in 0..(e[2] - 1) : Cell(m, e[1], x) = 1} } :
            e \in EdgeKeySet(m) }

\* cz_gates[..] != cz_gates[..]: for every edge (i, j), the loop over k in
\* range(j) and the loop over k in range(i) that skips k == j.
SatSolverDifferent(m) ==
    UNION { { <<e, (<<e[1], k>>)>> :
                k \in {x \in 0..(e[2] - 1) : Cell(m, e[1], x) = 1} }
            \cup
            { <<e, (IF e[2] > k THEN <<e[2], k>> ELSE <<k, e[2]>>)>> :
                k \in {x \in 0..(e[1] - 1) : x # e[2] /\ Cell(m, e[2], x) = 1} } :
            e \in EdgeKeySet(m) }

\* cz_gates[..] != identities[..]: the else branches of the same loops.
SatSolverIdentityDifferent(m) ==
    UNION { { <<e, (<<e[1], k>>)>> :
                k \in {x \in 0..(e[2] - 1) : Cell(m, e[1], x) # 1} }
            \cup
            { <<e, (IF e[2] > k THEN <<e[2], k>> ELSE <<k, e[2]>>)>> :
                k \in {x \in 0..(e[1] - 1) : x # e[2] /\ Cell(m, e[2], x) # 1} } :
            e \in EdgeKeySet(m) }

\* cz_gates[..] < identities[..], added under use_symmetry_breaking.
SatSolverIdentityLess(m) ==
    UNION { { <<e, (<<e[1], k>>)>> :
                k \in {x \in 0..(e[2] - 1) : Cell(m, e[1], x) # 1} }
            \cup
            { <<e, (IF e[2] > k THEN <<e[2], k>> ELSE <<k, e[2]>>)>> :
                k \in {x \in 0..(e[1] - 1) : x # e[2] /\ Cell(m, e[2], x) # 1} } :
            e \in EdgeKeySet(m) }

\* Mutant: identities are declared like cz gates, identities[..] < depth.
IdentityValuesBelowDepth(d) == 0..(d - 1)

\* identities[..] >= 0 and nothing else bounds an identity.  An identity is
\* only ever compared with cz variables, whose values lie below d, so every
\* value from d upwards behaves like d and 0..d stands for the naturals.
IdentityValues(d) == 0..d

\* Mutant: the cz variables are bounded by cz_gates[..] <= depth.
SatSolverModelsUpToDepth(m, d, sym) ==
    LET different == SatSolverDifferent(m)
        idDifferent == SatSolverIdentityDifferent(m)
        idLess == IF sym THEN SatSolverIdentityLess(m) ELSE {}
    IN  { a \in [EdgeKeySet(m) -> 0..d] :
            /\ \A c \in different : a[c[1]] # a[c[2]]
            /\ \A p \in IdentityKeySet(m) : \E v \in IdentityValues(d) :
                  /\ \A c \in idDifferent : c[2] = p => a[c[1]] # v
                  /\ \A c \in idLess : c[2] = p => a[c[1]] < v }

\* Mutant: the symmetry breaker asks cz_gates[..] > identities[..].
SatSolverModelsIdentityGreater(m, d, sym) ==
    LET different == SatSolverDifferent(m)
        idDifferent == SatSolverIdentityDifferent(m)
        idLess == IF sym THEN SatSolverIdentityLess(m) ELSE {}
    IN  { a \in [EdgeKeySet(m) -> 0..(d - 1)] :
            /\ \A c \in different : a[c[1]] # a[c[2]]
            /\ \A p \in IdentityKeySet(m) : \E v \in IdentityValues(d) :
                  /\ \A c \in idDifferent : c[2] = p => a[c[1]] # v
                  /\ \A c \in idLess : c[2] = p => a[c[1]] > v }

\* The models of the instance, projected on the cz variables (the only ones
\* read back).  The identities are not constrained against each other, so a cz
\* assignment extends to a model iff every identity alone has a value.
SatSolverModels(m, d, sym) ==
    LET different == SatSolverDifferent(m)
        idDifferent == SatSolverIdentityDifferent(m)
        idLess == IF sym THEN SatSolverIdentityLess(m) ELSE {}
    IN  { a \in [EdgeKeySet(m) -> 0..(d - 1)] :
            /\ \A c \in different : a[c[1]] # a[c[2]]
            /\ \A p \in IdentityKeySet(m) : \E v \in IdentityValues(d) :
                  /\ \A c \in idDifferent : c[2] = p => a[c[1]] # v
                  /\ \A c \in idLess : c[2] = p => a[c[1]] < v }

sat_solver_synthesis(m, d, sym) ==
    SolverOutcomes(SatSolverModels(m, d, sym), EdgeKeys(m))

\* The _synthesis of the module optimize_clifford dispatched to.
Synthesis(edgeColouring, m, d, sym) ==
    IF edgeColouring THEN edge_colouring_synthesis(m, d, sym)
    ELSE sat_solver_synthesis(m, d, sym)

ModelsOf(edgeColouring, m, d, sym) ==
    IF edgeColouring THEN EdgeColouringModels(m, d, sym)
    ELSE SatSolverModels(m, d, sym)

\* s.check() == sat
Satisfiable(edgeColouring, m, d, sym) ==
    \E a \in ModelsOf(edgeColouring, m, d, sym) : TRUE

\* "if mapping:" -- _synthesis hands back a non-empty dict.
ReturnsMapping(edgeColouring, m, d, sym) ==
    \E a \in ModelsOf(edgeColouring, m, d, sym) :
        ResultOfModel(a, EdgeKeys(m), <<>>) # <<>>

-----------------------------------------------------------------------------
(* _max_outgoing_connections and the materializer *)

\* Mutant: the cells equal to 0 are counted (== 0 for == 1).
max_outgoing_connections_CountsZeros(m) ==
    LET count(i) == Cardinality({j \in 0..i : Cell(m, i, j) = 0})
        counts == {count(i) : i \in Nodes(Len(m))} \cup {-1}
    IN  CHOOSE c \in counts : \A o \in counts : o <= c

\* Mutant: temp_connections starts at 1 for every row.
max_outgoing_connections_CountsFromOne(m) ==
    LET count(i) == 1 + Cardinality({j \in 0..i : Cell(m, i, j) = 1})
        counts == {count(i) : i \in Nodes(Len(m))} \cup {-1}
    IN  CHOOSE c \in counts : \A o \in counts : o <= c

max_outgoing_connections(m) ==
    LET count(i) == Cardinality({j \in 0..i : Cell(m, i, j) = 1})
        counts == {count(i) : i \in Nodes(Len(m))} \cup {-1}
    IN  CHOOSE c \in counts : \A o \in counts : o <= c

RECURSIVE CzGates(_)
CzGates(edges) ==
    IF edges = <<>> THEN <<>>
    ELSE <<Gate("cz", <<Head(edges)[1], Head(edges)[2]>>)>> \o CzGates(Tail(edges))

RECURSIVE CzLayers(_)
CzLayers(mapping) ==
    IF mapping = <<>> THEN <<>>
    ELSE CzGates(Head(mapping).edges) \o CzLayers(Tail(mapping))

\* Mutant: the Hadamards are applied after the CZ loop.
map_synthesis_HadamardsLast(mapping, m) ==
    CzLayers(mapping) \o HLayer(0, Len(m))

\* Mutant: the Hadamards start at qubit 1, h(range(1, num_qubits)).
map_synthesis_SkipsFirstHadamard(mapping, m) ==
    HLayer(1, Len(m)) \o CzLayers(mapping)

map_synthesis_depth_optimal_mapping_to_qcircuit(mapping, m) ==
    HLayer(0, Len(m)) \o CzLayers(mapping)

SynthesisResults(d, single, two, calls) ==
    [depth |-> d, gates |-> single + two, single_qubit_gates |-> single,
     solver_calls |-> calls, two_qubit_gates |-> two]

-----------------------------------------------------------------------------
(* The call *)

NoResult == SynthesisResults(0, 0, 0, 0)

Init ==
    /\ circuit \in InputCircuits
    /\ use_edge_coloring \in BOOLEAN
    /\ use_symmetry_breaking \in BOOLEAN
    /\ use_linear_search \in BOOLEAN
    /\ pc = "call"
    /\ adjacency_matrix = <<>>
    /\ depth = 0
    /\ solver_calls = 0
    /\ depth_optimal_mapping = <<>>
    /\ minimum_depth = 0
    /\ maximum_depth = 0
    /\ range_iter = 0
    /\ left_bound_depth = 0
    /\ right_bound_depth = 0
    /\ current_depth = 0
    /\ mappings_at_depth = <<>>
    /\ found_optimal_depth = FALSE
    /\ returned_circuit = <<>>
    /\ result = NoResult
    /\ solver_log = <<>>

\* Mutant: the edge-colouring search starts at 0 like the other module's.
LowerBoundZero(edgeColouring, m) == 0

\* Mutant: both searches start at the upper bound, len(adjacency_matrix).
LowerBoundIsUpperBound(edgeColouring, m) == Len(m)

\* The lower bound each module starts its search from.
LowerBound(edgeColouring, m) ==
    IF edgeColouring THEN max_outgoing_connections(m) ELSE 0

\* Mutant: the call that found the mapping is not counted.
ReturnMissesLastCall(mapping, m, d, calls) ==
    LET data == map_synthesis_depth_optimal_mapping_to_qcircuit(mapping, m)
    IN  /\ returned_circuit' = data
        /\ result' = SynthesisResults(d, count_single_qubit_gates(data),
                                      count_two_qubit_gates(data), calls - 1)
        /\ pc' = "done"

\* The tail of synthesize_graph_state_*: the search hands back the materialized
\* circuit, the depth and the call count, and the gates of that circuit are
\* counted into the SynthesisResults.
Return(mapping, m, d, calls) ==
    LET data == map_synthesis_depth_optimal_mapping_to_qcircuit(mapping, m)
    IN  /\ returned_circuit' = data
        /\ result' = SynthesisResults(d, count_single_qubit_gates(data),
                                      count_two_qubit_gates(data), calls)
        /\ pc' = "done"

\* synthesize_graph_state_*: up to the first probe.  An all-zero matrix returns
\* the input circuit with its own gate counts; otherwise the chosen search sets
\* up its bounds (a linear search over an empty range returns at once).
EnterSynthesize ==
    /\ pc = "call"
    /\ LET m == extract_adjacency_matrix(circuit.name)
           lower == LowerBound(use_edge_coloring, m)
       IN  /\ adjacency_matrix' = m
           /\ IF AllZero(m)
              THEN /\ returned_circuit' = circuit.data
                   /\ result' = SynthesisResults(0,
                                    count_single_qubit_gates(circuit.data),
                                    count_two_qubit_gates(circuit.data), 0)
                   /\ pc' = "done"
                   /\ UNCHANGED <<minimum_depth, maximum_depth, range_iter,
                                  left_bound_depth, right_bound_depth>>
              ELSE IF use_linear_search
              THEN /\ minimum_depth' = lower
                   /\ maximum_depth' = Len(m)
                   /\ range_iter' = lower
                   /\ IF lower > Len(m)
                      THEN Return(<<>>, m, 0, 0)
                      ELSE pc' = "linear" /\ UNCHANGED <<returned_circuit, result>>
                   /\ UNCHANGED <<left_bound_depth, right_bound_depth>>
              ELSE /\ left_bound_depth' = lower
                   /\ right_bound_depth' = Len(m)
                   /\ pc' = "binary"
                   /\ UNCHANGED <<minimum_depth, maximum_depth, range_iter,
                                  returned_circuit, result>>
    /\ UNCHANGED <<circuit, use_edge_coloring, use_symmetry_breaking,
                   use_linear_search, depth, solver_calls, depth_optimal_mapping,
                   current_depth, mappings_at_depth, found_optimal_depth,
                   solver_log>>

LogEntry(d, mapping) == [depth |-> d, sat |-> mapping # <<>>]

\* One pass of _linear_search's for loop: probe the next depth of the range;
\* a non-empty mapping breaks out of the loop, a used-up range ends it, and
\* either way the function returns.
LinearIteration ==
    /\ pc = "linear"
    /\ \E mapping \in Synthesis(use_edge_coloring, adjacency_matrix, range_iter,
                                use_symmetry_breaking) :
          /\ depth' = range_iter
          /\ solver_calls' = solver_calls + 1
          /\ solver_log' = Append(solver_log, LogEntry(range_iter, mapping))
          /\ IF mapping # <<>>
             THEN /\ depth_optimal_mapping' = mapping
                  /\ UNCHANGED range_iter
                  /\ Return(mapping, adjacency_matrix, range_iter,
                            solver_calls + 1)
             ELSE /\ range_iter' = range_iter + 1
                  /\ UNCHANGED depth_optimal_mapping
                  /\ IF range_iter + 1 > maximum_depth
                     THEN Return(depth_optimal_mapping, adjacency_matrix,
                                 range_iter, solver_calls + 1)
                     ELSE UNCHANGED <<pc, returned_circuit, result>>
    /\ UNCHANGED <<circuit, use_edge_coloring, use_symmetry_breaking,
                   use_linear_search, adjacency_matrix, minimum_depth,
                   maximum_depth, left_bound_depth, right_bound_depth,
                   current_depth, mappings_at_depth, found_optimal_depth>>

\* Mutant: the midpoint is taken one too high.
MidPointPlusOne(left, right) == (left + right) \div 2 + 1

MidPoint(left, right) == (left + right) \div 2

\* Mutant: the lookup is made in a dict that was never filled.
InCacheOfEmptyDict(cache, d) == d \in DOMAIN <<>>

\* d in mappings_at_depth
InCache(cache, d) == d \in DOMAIN cache

\* Mutant: every cached depth ends up holding the mapping stored last.
StoreAliased(cache, d, mapping) ==
    [k \in DOMAIN cache \cup {d} |-> mapping]

\* mappings_at_depth[d] = mapping
Store(cache, d, mapping) ==
    [k \in DOMAIN cache \cup {d} |-> IF k = d THEN mapping ELSE cache[k]]

\* One pass of _binary_search's while loop; the pass that sets
\* found_optimal_depth leaves the loop and returns.
BinaryIteration ==
    /\ pc = "binary"
    /\ ~found_optimal_depth
    /\ LET current == MidPoint(left_bound_depth, right_bound_depth)
           probeCurrent == ~InCache(mappings_at_depth, current)
           probePrevious == /\ current # left_bound_depth
                            /\ ~InCache(mappings_at_depth, current - 1)
       IN  \E first \in (IF probeCurrent
                         THEN Synthesis(use_edge_coloring, adjacency_matrix,
                                        current, use_symmetry_breaking)
                         ELSE {<<>>}) :
           \E second \in (IF probePrevious
                          THEN Synthesis(use_edge_coloring, adjacency_matrix,
                                         current - 1, use_symmetry_breaking)
                          ELSE {<<>>}) :
             LET cache1 == IF probeCurrent
                           THEN Store(mappings_at_depth, current, first)
                           ELSE mappings_at_depth
                 cache2 == IF probePrevious
                           THEN Store(cache1, current - 1, second)
                           ELSE cache1
                 log1 == IF probeCurrent
                         THEN Append(solver_log, LogEntry(current, first))
                         ELSE solver_log
                 log2 == IF probePrevious
                         THEN Append(log1, LogEntry(current - 1, second))
                         ELSE log1
                 calls == solver_calls + (IF probeCurrent THEN 1 ELSE 0)
                                       + (IF probePrevious THEN 1 ELSE 0)
             IN  /\ current_depth' = current
                 /\ mappings_at_depth' = cache2
                 /\ solver_log' = log2
                 /\ solver_calls' = calls
                 /\ depth_optimal_mapping' = cache2[current]
                 /\ IF cache2[current] = <<>>
                    THEN /\ left_bound_depth' = current + 1
                         /\ UNCHANGED <<right_bound_depth, found_optimal_depth,
                                        pc, returned_circuit, result>>
                    ELSE IF current # left_bound_depth /\ cache2[current - 1] # <<>>
                    THEN /\ right_bound_depth' = current - 1
                         /\ UNCHANGED <<left_bound_depth, found_optimal_depth,
                                        pc, returned_circuit, result>>
                    ELSE /\ found_optimal_depth' = TRUE
                         /\ UNCHANGED <<left_bound_depth, right_bound_depth>>
                         /\ Return(cache2[current], adjacency_matrix, current, calls)
    /\ UNCHANGED <<circuit, use_edge_coloring, use_symmetry_breaking,
                   use_linear_search, adjacency_matrix, depth, minimum_depth,
                   maximum_depth, range_iter>>

-----------------------------------------------------------------------------
(* The depth each search returns, as a function of its arguments: the depth
   depends on the probes' outcomes only, not on the models the solver picks. *)

RECURSIVE LinearDepthFrom(_, _, _, _, _)
LinearDepthFrom(edgeColouring, m, sym, d, maximum) ==
    IF ReturnsMapping(edgeColouring, m, d, sym) \/ d >= maximum THEN d
    ELSE LinearDepthFrom(edgeColouring, m, sym, d + 1, maximum)

linear_search_depth(edgeColouring, m, sym) ==
    IF LowerBound(edgeColouring, m) > Len(m) THEN 0
    ELSE LinearDepthFrom(edgeColouring, m, sym, LowerBound(edgeColouring, m),
                         Len(m))

RECURSIVE BinaryDepthFrom(_, _, _, _, _)
BinaryDepthFrom(edgeColouring, m, sym, left, right) ==
    LET current == MidPoint(left, right)
    IN  IF ~ReturnsMapping(edgeColouring, m, current, sym)
        THEN BinaryDepthFrom(edgeColouring, m, sym, current + 1, right)
        ELSE IF current # left /\ ReturnsMapping(edgeColouring, m, current - 1, sym)
        THEN BinaryDepthFrom(edgeColouring, m, sym, left, current - 1)
        ELSE current

binary_search_depth(edgeColouring, m, sym) ==
    BinaryDepthFrom(edgeColouring, m, sym, LowerBound(edgeColouring, m), Len(m))

\* result.depth of synthesize_graph_state_edge_colouring / _sat_solver.
SynthesizeDepth(edgeColouring, linear, m, sym) ==
    IF AllZero(m) THEN 0
    ELSE IF linear THEN linear_search_depth(edgeColouring, m, sym)
    ELSE binary_search_depth(edgeColouring, m, sym)

\* The solver_calls each search returns, as a function of its arguments: one
\* call per pass of the linear loop, one call per depth not yet in
\* mappings_at_depth (probed) for the binary loop.
RECURSIVE LinearCallsFrom(_, _, _, _, _)
LinearCallsFrom(edgeColouring, m, sym, d, maximum) ==
    IF ReturnsMapping(edgeColouring, m, d, sym) \/ d >= maximum THEN 1
    ELSE 1 + LinearCallsFrom(edgeColouring, m, sym, d + 1, maximum)

linear_search_calls(edgeColouring, m, sym) ==
    IF LowerBound(edgeColouring, m) > Len(m) THEN 0
    ELSE LinearCallsFrom(edgeColouring, m, sym, LowerBound(edgeColouring, m),
                         Len(m))

RECURSIVE BinaryCallsFrom(_, _, _, _, _, _)
BinaryCallsFrom(edgeColouring, m, sym, left, right, probed) ==
    LET current == MidPoint(left, right)
        probed1 == probed \cup {current}
        probed2 == IF current # left THEN probed1 \cup {current - 1} ELSE probed1
    IN  IF ~ReturnsMapping(edgeColouring, m, current, sym)
        THEN BinaryCallsFrom(edgeColouring, m, sym, current + 1, right, probed2)
        ELSE IF current # left /\ ReturnsMapping(edgeColouring, m, current - 1, sym)
        THEN BinaryCallsFrom(edgeColouring, m, sym, left, current - 1, probed2)
        ELSE Cardinality(probed2)

binary_search_calls(edgeColouring, m, sym) ==
    BinaryCallsFrom(edgeColouring, m, sym, LowerBound(edgeColouring, m), Len(m),
                    {})

\* result.solver_calls of synthesize_graph_state_edge_colouring / _sat_solver.
SynthesizeCalls(edgeColouring, linear, m, sym) ==
    IF AllZero(m) THEN 0
    ELSE IF linear THEN linear_search_calls(edgeColouring, m, sym)
    ELSE binary_search_calls(edgeColouring, m, sym)

Next ==
    \/ EnterSynthesize
    \/ LinearIteration
    \/ BinaryIteration

Spec == Init /\ [][Next]_vars

\* The same program under the fairness its sequential execution gives: a call
\* that can take a step takes one.  The graphs have up to FairNodes nodes.
FairInputCircuits == UNION { GraphCircuits(n) : n \in 1..FairNodes }

InitFair ==
    /\ circuit \in FairInputCircuits
    /\ use_edge_coloring \in BOOLEAN
    /\ use_symmetry_breaking \in BOOLEAN
    /\ use_linear_search \in BOOLEAN
    /\ pc = "call"
    /\ adjacency_matrix = <<>>
    /\ depth = 0
    /\ solver_calls = 0
    /\ depth_optimal_mapping = <<>>
    /\ minimum_depth = 0
    /\ maximum_depth = 0
    /\ range_iter = 0
    /\ left_bound_depth = 0
    /\ right_bound_depth = 0
    /\ current_depth = 0
    /\ mappings_at_depth = <<>>
    /\ found_optimal_depth = FALSE
    /\ returned_circuit = <<>>
    /\ result = NoResult
    /\ solver_log = <<>>

SpecFair == InitFair /\ [][Next]_vars /\ WF_vars(Next)

-----------------------------------------------------------------------------
(* The same program called on every simple graph with up to DenseNodes nodes,
   the complete graphs included. *)

DenseGraphCircuits(n) ==
    UNION { { [name |-> NameOf(MatrixOf(n, es)), data |-> d] :
                d \in GraphStateData(MatrixOf(n, es)) } :
            es \in SUBSET NodePairs(n) }

DenseInputCircuits == UNION { DenseGraphCircuits(n) : n \in 1..DenseNodes }

InitDense ==
    /\ circuit \in DenseInputCircuits
    /\ use_edge_coloring \in BOOLEAN
    /\ use_symmetry_breaking \in BOOLEAN
    /\ use_linear_search \in BOOLEAN
    /\ pc = "call"
    /\ adjacency_matrix = <<>>
    /\ depth = 0
    /\ solver_calls = 0
    /\ depth_optimal_mapping = <<>>
    /\ minimum_depth = 0
    /\ maximum_depth = 0
    /\ range_iter = 0
    /\ left_bound_depth = 0
    /\ right_bound_depth = 0
    /\ current_depth = 0
    /\ mappings_at_depth = <<>>
    /\ found_optimal_depth = FALSE
    /\ returned_circuit = <<>>
    /\ result = NoResult
    /\ solver_log = <<>>

SpecDense == InitDense /\ [][Next]_vars

-----------------------------------------------------------------------------
(* The same program called on graph circuits of the test suite. *)

\* graph_circuit_2qubit, graph_circuit_4qubit_1 and graph_circuit_4qubit_2.
graph_circuit_2qubit == MatrixOf(2, {<<1, 0>>})

graph_circuit_4qubit_1 ==
    MatrixOf(4, {<<1, 0>>, <<2, 0>>, <<2, 1>>, <<3, 1>>, <<3, 2>>})

graph_circuit_4qubit_2 == MatrixOf(4, NodePairs(4))

TestCircuits ==
    UNION { { [name |-> NameOf(m), data |-> d] : d \in GraphStateData(m) } :
            m \in {graph_circuit_2qubit, graph_circuit_4qubit_1,
                   graph_circuit_4qubit_2} }

InitTests ==
    /\ circuit \in TestCircuits
    /\ use_edge_coloring \in BOOLEAN
    /\ use_symmetry_breaking \in BOOLEAN
    /\ use_linear_search \in BOOLEAN
    /\ pc = "call"
    /\ adjacency_matrix = <<>>
    /\ depth = 0
    /\ solver_calls = 0
    /\ depth_optimal_mapping = <<>>
    /\ minimum_depth = 0
    /\ maximum_depth = 0
    /\ range_iter = 0
    /\ left_bound_depth = 0
    /\ right_bound_depth = 0
    /\ current_depth = 0
    /\ mappings_at_depth = <<>>
    /\ found_optimal_depth = FALSE
    /\ returned_circuit = <<>>
    /\ result = NoResult
    /\ solver_log = <<>>

SpecTests == InitTests /\ [][Next]_vars

-----------------------------------------------------------------------------
(* Graph notions the properties are stated in *)

\* The edges of the graph of matrix m, as two-element sets of nodes.
GraphEdges(m) ==
    {{p[1], p[2]} : p \in {q \in NodePairs(Len(m)) : Cell(m, q[1], q[2]) = 1}}

MaxDegree(m) ==
    LET edges == GraphEdges(m)
        degree(v) == Cardinality({e \in edges : v \in e})
    IN  CHOOSE k \in 0..Len(m) :
            /\ \A v \in Nodes(Len(m)) : degree(v) <= k
            /\ \E v \in Nodes(Len(m)) : degree(v) = k

\* c colours the edges so that edges sharing a node differ.
ProperEdgeColouring(edges, c) ==
    \A e \in edges : \A f \in edges : (e # f /\ e \cap f # {}) => c[e] # c[f]

ColourableWith(edges, k) ==
    \E c \in [edges -> 0..(k - 1)] : ProperEdgeColouring(edges, c)

HasEdge == adjacency_matrix # <<>> /\ GraphEdges(adjacency_matrix) # {}

NoEdge == adjacency_matrix # <<>> /\ GraphEdges(adjacency_matrix) = {}

Searched == pc = "done" /\ HasEdge

\* The inputs have been read and no probe has been made yet.
InputsRead == pc # "call" /\ solver_log = <<>>

\* The edges of a layer, as two-element sets of nodes.
LayerEdges(layer) == {{layer.edges[x][1], layer.edges[x][2]} : x \in 1..Len(layer.edges)}

\* The layer (colour) a mapping gives the edge e, -1 when it has none.
LayerOf(mapping, e) ==
    IF \E k \in 1..Len(mapping) : e \in LayerEdges(mapping[k])
    THEN mapping[CHOOSE k \in 1..Len(mapping) : e \in LayerEdges(mapping[k])].color
    ELSE -1

\* The depths the properties about _synthesis range over.
Depths(m) == 0..(Len(m) + 1)

-----------------------------------------------------------------------------
(* C1: for every simple graph with at least one edge and every combination of
   encoder, search and symmetry-breaking flag, the returned depth is the
   graph's edge-chromatic number: the returned mapping is a proper edge
   colouring with that many layers, and no proper edge colouring with fewer
   layers exists. *)
C1_DepthIsEdgeChromaticNumber ==
    Searched =>
        LET edges == GraphEdges(adjacency_matrix)
            colour == [e \in edges |-> LayerOf(depth_optimal_mapping, e)]
        IN  /\ \A e \in edges : colour[e] \in 0..(result.depth - 1)
            /\ ProperEdgeColouring(edges, colour)
            /\ \A k \in 0..(result.depth - 1) : ~ColourableWith(edges, k)

\* A search that started below the maximum degree ended: two edges that meet
\* in node 0 need depth 2.
C1_Witness ==
    /\ Searched
    /\ result.depth = 2
    /\ MaxDegree(adjacency_matrix) = 2
    /\ \E k \in 1..Len(solver_log) : ~solver_log[k].sat

(* C2: in every mapping a successful search returns (either encoder, either
   search, symmetry breaking on or off) no two distinct edges of one layer
   share a node. *)
C2_LayersAreIndependent ==
    Searched =>
        \A k \in 1..Len(depth_optimal_mapping) :
            LET edges == depth_optimal_mapping[k].edges
            IN  \A x \in 1..Len(edges) : \A y \in 1..Len(edges) :
                    x # y => {edges[x][1], edges[x][2]}
                             \cap {edges[y][1], edges[y][2]} = {}

\* A returned mapping with two edges in one layer.
C2_Witness ==
    /\ Searched
    /\ \E k \in 1..Len(depth_optimal_mapping) :
          Len(depth_optimal_mapping[k].edges) >= 2

(* C3: for the same graph with at least one edge, the same encoder and the
   same symmetry-breaking flag, _binary_search and _linear_search return the
   same depth: whichever search a run used, it returns the depth
   _linear_search computes for its arguments. *)
C3_BinaryAndLinearAgree ==
    Searched =>
        result.depth = SynthesizeDepth(use_edge_coloring, TRUE,
                           adjacency_matrix, use_symmetry_breaking)

\* A binary search that moved both of its bounds ended.
C3_Witness ==
    /\ Searched
    /\ ~use_linear_search
    /\ left_bound_depth > LowerBound(use_edge_coloring, adjacency_matrix)
    /\ right_bound_depth < Len(adjacency_matrix)

(* C4: satisfiability is monotone in the depth, for each encoder, with and
   without symmetry breaking: if _synthesis returns a non-empty mapping at
   depth d1 it returns one at every depth d2 > d1.  Stated of the instances of
   the run's graph and of the mappings the binary search has cached. *)
C4_MonotoneInDepth ==
    /\ InputsRead =>
          LET nonEmpty == {d \in Depths(adjacency_matrix) :
                              ReturnsMapping(use_edge_coloring, adjacency_matrix,
                                             d, use_symmetry_breaking)}
          IN  \A d1 \in nonEmpty : \A d2 \in Depths(adjacency_matrix) :
                  d1 < d2 => d2 \in nonEmpty
    /\ \A d1 \in DOMAIN mappings_at_depth : \A d2 \in DOMAIN mappings_at_depth :
          (d1 < d2 /\ mappings_at_depth[d1] # <<>>) => mappings_at_depth[d2] # <<>>

\* The cache holds non-empty mappings for two depths.
C4_Witness ==
    \E d1 \in DOMAIN mappings_at_depth : \E d2 \in DOMAIN mappings_at_depth :
        d1 < d2 /\ mappings_at_depth[d1] # <<>> /\ mappings_at_depth[d2] # <<>>

(* C5: symmetry breaking never changes satisfiability: for every graph, each
   encoder and every depth the instance is satisfiable with the flag set iff
   it is satisfiable without it; every probe a run made had the outcome the
   other flag value gives. *)
C5_SymmetryBreakingKeepsSatisfiability ==
    /\ InputsRead =>
          \A d \in Depths(adjacency_matrix) :
              Satisfiable(use_edge_coloring, adjacency_matrix, d, TRUE)
              <=> Satisfiable(use_edge_coloring, adjacency_matrix, d, FALSE)
    /\ pc = "done" =>
          \A k \in 1..Len(solver_log) :
              solver_log[k].sat
              <=> ReturnsMapping(use_edge_coloring, adjacency_matrix,
                                 solver_log[k].depth, ~use_symmetry_breaking)

\* A run with symmetry breaking saw a failed and a successful probe.
C5_Witness ==
    /\ Searched
    /\ use_symmetry_breaking
    /\ \E k \in 1..Len(solver_log) : solver_log[k].sat
    /\ \E k \in 1..Len(solver_log) : ~solver_log[k].sat

(* C6: for every graph, the same search strategy and the same
   symmetry-breaking flag, the edge-colouring synthesis and the
   direct-scheduling synthesis return the same depth: whichever encoder a run
   used, it returns the depth the direct-scheduling synthesis computes for
   its arguments. *)
C6_EncodersAgreeOnDepth ==
    pc = "done" =>
        result.depth = SynthesizeDepth(FALSE, use_linear_search,
                           adjacency_matrix, use_symmetry_breaking)

\* An edge-colouring run that found depth 2 after a failed probe.
C6_Witness ==
    /\ Searched
    /\ use_edge_coloring
    /\ result.depth = 2
    /\ result.solver_calls >= 2

(* C7: with the edge-colouring encoder the returned depth is at least the
   maximum node degree, for every simple graph, either search, symmetry
   breaking on or off. *)
C7_DepthAtLeastMaxDegree ==
    (pc = "done" /\ use_edge_coloring) =>
        result.depth >= MaxDegree(adjacency_matrix)

\* An edge-colouring run whose lower bound was below the maximum degree.
C7_Witness ==
    /\ Searched
    /\ use_edge_coloring
    /\ max_outgoing_connections(adjacency_matrix) < MaxDegree(adjacency_matrix)

(* C8: for an all-zero adjacency matrix both synthesize functions return
   before any _synthesis call, with depth 0 and solver_calls 0, hand back the
   input circuit unchanged and report the gate counts of that circuit. *)
C8_ZeroMatrixShortCircuits ==
    (pc = "done" /\ NoEdge) =>
        LET data == circuit.data
            ofWidth(w) == Cardinality({k \in 1..Len(data) : Len(data[k].qubits) = w})
        IN  /\ solver_log = <<>>
            /\ result.depth = 0
            /\ result.solver_calls = 0
            /\ returned_circuit = data
            /\ result.single_qubit_gates = ofWidth(1)
            /\ result.two_qubit_gates = ofWidth(2)
            /\ result.gates = ofWidth(1) + ofWidth(2)

\* A call with an all-zero matrix on a circuit that has gates to count.
C8_Witness ==
    /\ pc = "done"
    /\ NoEdge
    /\ result.gates >= 2

(* C9: the node pairs that get a CZ in the materialized circuit are the edges
   of the input graph, each exactly once. *)
C9_CzGatesAreTheEdges ==
    Searched =>
        LET cz == {k \in 1..Len(returned_circuit) : returned_circuit[k].name = "cz"}
            pair(k) == {returned_circuit[k].qubits[1], returned_circuit[k].qubits[2]}
        IN  /\ {pair(k) : k \in cz} = GraphEdges(adjacency_matrix)
            /\ Cardinality(cz) = Cardinality(GraphEdges(adjacency_matrix))

\* A materialized circuit for a graph with two edges in one layer.
C9_Witness ==
    /\ Searched
    /\ Cardinality(GraphEdges(adjacency_matrix)) = 2
    /\ Len(depth_optimal_mapping) = 1

(* C10: for a graph with n nodes and at least one edge the result reports
   two_qubit_gates = number of edges, single_qubit_gates = n,
   gates = n + number of edges, and solver_calls = the calls the search
   made. *)
C10_ResultCounts ==
    Searched =>
        LET edges == Cardinality(GraphEdges(adjacency_matrix))
            n == Len(adjacency_matrix)
        IN  /\ result.two_qubit_gates = edges
            /\ result.single_qubit_gates = n
            /\ result.gates = n + edges
            /\ result.solver_calls = solver_calls
            /\ result.solver_calls = Len(solver_log)

\* A result for a graph on four nodes found with more than one solver call.
C10_Witness ==
    /\ Searched
    /\ Len(adjacency_matrix) = 4
    /\ result.solver_calls >= 2

(* C11: for a graph with at least one edge, _synthesis of either encoder
   returns a non-empty mapping exactly when the instance at depth d is
   satisfiable and the empty mapping otherwise, and every key of a returned
   mapping is a layer index in [0, d). *)
C11_SynthesisContract ==
    (InputsRead /\ HasEdge) =>
        \A d \in Depths(adjacency_matrix) :
            \A mapping \in Synthesis(use_edge_coloring, adjacency_matrix, d,
                                     use_symmetry_breaking) :
                /\ mapping # <<>>
                   <=> Satisfiable(use_edge_coloring, adjacency_matrix, d,
                                   use_symmetry_breaking)
                /\ \A k \in 1..Len(mapping) : mapping[k].color \in 0..(d - 1)

\* The direct-scheduling _synthesis of a graph with two edges at one node:
\* empty at depth 1, a mapping with the keys 0 and 1 at depth 2.
C11_Witness ==
    /\ InputsRead
    /\ ~use_edge_coloring
    /\ MaxDegree(adjacency_matrix) = 2
    /\ Synthesis(FALSE, adjacency_matrix, 1, use_symmetry_breaking) = {<<>>}
    /\ \E mapping \in Synthesis(FALSE, adjacency_matrix, 2, use_symmetry_breaking) :
          {mapping[k].color : k \in 1..Len(mapping)} = {0, 1}

(* C12: for every simple graph with n nodes the instance at depth n is
   satisfiable (both encoders, symmetry breaking on or off), so the range of
   _linear_search is never used up: the loop is left through the break, with
   a non-empty mapping found at a depth of at most n. *)
C12_LinearSearchNeverExhausts ==
    /\ InputsRead =>
          Satisfiable(use_edge_coloring, adjacency_matrix,
                      Len(adjacency_matrix), use_symmetry_breaking)
    /\ pc = "linear" => range_iter <= maximum_depth
    /\ (Searched /\ use_linear_search) =>
          /\ solver_log[Len(solver_log)].sat
          /\ depth_optimal_mapping # <<>>
          /\ result.depth <= Len(adjacency_matrix)

\* A linear search that needed the last depth of its range: the triangle.
C12_Witness ==
    /\ Searched
    /\ use_linear_search
    /\ Len(adjacency_matrix) = 3
    /\ result.depth = 3

(* C13: _binary_search terminates for every simple graph with at least one
   edge and both encoders: every pass of the loop that does not set
   found_optimal_depth strictly shrinks the interval
   [left_bound_depth, right_bound_depth], and a search that has been entered
   eventually sets found_optimal_depth. *)
C13_BinarySearchTerminates ==
    /\ [][(pc = "binary" /\ ~found_optimal_depth')
            => (right_bound_depth' - left_bound_depth'
                < right_bound_depth - left_bound_depth)]_vars
    /\ (pc = "binary") ~> found_optimal_depth

\* A direct-scheduling binary search set found_optimal_depth in a later pass,
\* after a pass that raised the left bound.
C13_Witness ==
    /\ found_optimal_depth
    /\ ~use_edge_coloring
    /\ left_bound_depth > 0
    /\ Len(solver_log) >= 3

(* C14: within one _binary_search call no depth is passed to _synthesis more
   than once: the result of every probed depth is stored in mappings_at_depth
   and kept for the rest of the search, so solver_calls is the number of
   distinct depths probed. *)
C14_NoDepthProbedTwice ==
    /\ [](~use_linear_search =>
            LET probed == {solver_log[k].depth : k \in 1..Len(solver_log)}
            IN  /\ \A x \in 1..Len(solver_log) : \A y \in 1..Len(solver_log) :
                      solver_log[x].depth = solver_log[y].depth => x = y
                /\ DOMAIN mappings_at_depth = probed
                /\ solver_calls = Cardinality(probed)
                /\ \A k \in 1..Len(solver_log) :
                      solver_log[k].sat
                      <=> mappings_at_depth[solver_log[k].depth] # <<>>)
    /\ [][\A d \in DOMAIN mappings_at_depth :
              /\ d \in DOMAIN mappings_at_depth'
              /\ mappings_at_depth'[d] = mappings_at_depth[d]]_vars

\* A binary search whose last pass probed nothing: its current depth is the
\* left bound and was cached by an earlier pass.
C14_Witness ==
    /\ Searched
    /\ ~use_linear_search
    /\ current_depth = left_bound_depth
    /\ solver_log[Len(solver_log)].depth # current_depth

(* C15: with the edge-colouring encoder the first depth _linear_search probes,
   which is also the initial left bound of _binary_search, equals the maximum
   node degree of the graph. *)
C15_LowerBoundIsMaxDegree ==
    (use_edge_coloring /\ HasEdge) =>
        /\ (pc = "linear" /\ solver_log = <<>>) =>
              range_iter = MaxDegree(adjacency_matrix)
        /\ (use_linear_search /\ solver_log # <<>>) =>
              solver_log[1].depth = MaxDegree(adjacency_matrix)
        /\ (pc = "binary" /\ solver_log = <<>>) =>
              left_bound_depth = MaxDegree(adjacency_matrix)

(* C16: the materialized circuit begins with exactly one H on every node, all
   of them before any CZ; given an empty mapping the circuit holds these n H
   gates and nothing else. *)
C16_HadamardsFirst ==
    /\ Searched =>
          LET n == Len(adjacency_matrix)
              data == returned_circuit
          IN  /\ Len(data) >= n
              /\ \A q \in 1..n : data[q] = Gate("h", <<q - 1>>)
              /\ \A k \in (n + 1)..Len(data) : data[k].name = "cz"
    /\ InputsRead =>
          map_synthesis_depth_optimal_mapping_to_qcircuit(<<>>, adjacency_matrix)
          = [q \in 1..Len(adjacency_matrix) |-> Gate("h", <<q - 1>>)]

\* A materialized circuit on four nodes with two CZ gates after the H gates.
C16_Witness ==
    /\ Searched
    /\ Len(adjacency_matrix) = 4
    /\ Len(returned_circuit) = 6
    /\ returned_circuit[5].name = "cz"

(* C17: the materializer emits the CZ gates layer by layer in increasing layer
   index: whenever edge e is assigned layer a and edge f layer b with a < b,
   the CZ of e comes before the CZ of f in the circuit. *)
C17_LayersInIncreasingOrder ==
    Searched =>
        LET data == returned_circuit
            cz == {k \in 1..Len(data) : data[k].name = "cz"}
            layer(k) == LayerOf(depth_optimal_mapping,
                                {data[k].qubits[1], data[k].qubits[2]})
        IN  \A x \in cz : \A y \in cz : layer(x) < layer(y) => x < y

(* C18: materialization is deterministic and independent of the mapping's
   iteration order: materializing the same mapping again gives the same
   circuit, and a mapping with the same layers inserted in another order gives
   the same circuit too. *)
C18_IndependentOfInsertionOrder ==
    Searched =>
        /\ map_synthesis_depth_optimal_mapping_to_qcircuit(
               depth_optimal_mapping, adjacency_matrix) = returned_circuit
        /\ \A order \in Permutations(1..Len(depth_optimal_mapping)) :
              map_synthesis_depth_optimal_mapping_to_qcircuit(
                  [k \in 1..Len(depth_optimal_mapping) |->
                      depth_optimal_mapping[order[k]]],
                  adjacency_matrix) = returned_circuit

(* C19: for the 4-node graph [[0,1,1,0],[1,0,1,1],[1,1,0,1],[0,1,1,0]] and the
   edge-colouring encoder, synthesis returns depth 3 and 9 gates, with 2
   solver calls by binary search without symmetry breaking, 2 by binary search
   with symmetry breaking and 2 by linear search without symmetry breaking. *)
C19_FourQubitScenario ==
    (pc = "done" /\ use_edge_coloring
       /\ adjacency_matrix = <<<<0, 1, 1, 0>>, <<1, 0, 1, 1>>,
                               <<1, 1, 0, 1>>, <<0, 1, 1, 0>>>>) =>
        /\ result.depth = 3
        /\ result.gates = 9
        /\ (~use_linear_search /\ ~use_symmetry_breaking) => result.solver_calls = 2
        /\ (~use_linear_search /\ use_symmetry_breaking) => result.solver_calls = 2
        /\ (use_linear_search /\ ~use_symmetry_breaking) => result.solver_calls = 2

\* The linear edge-colouring search of that graph has returned.
C19_Witness ==
    /\ pc = "done"
    /\ use_edge_coloring
    /\ use_linear_search
    /\ ~use_symmetry_breaking
    /\ adjacency_matrix = graph_circuit_4qubit_1
    /\ Len(returned_circuit) = 9

(* C20: _linear_search probes consecutive depths upward from its starting
   bound, makes one solver call per probed depth and stops at the first
   satisfiable one, so solver_calls = returned depth - starting bound + 1;
   with the direct-scheduling encoder, which starts at 0,
   solver_calls = returned depth + 1 for every graph with at least one edge. *)
C20_LinearSearchCalls ==
    (use_linear_search /\ HasEdge) =>
        /\ \A k \in 1..Len(solver_log) :
              /\ solver_log[k].depth = minimum_depth + k - 1
              /\ k < Len(solver_log) => ~solver_log[k].sat
        /\ solver_calls = Len(solver_log)
        /\ ~use_edge_coloring => minimum_depth = 0
        /\ pc = "done" =>
              /\ solver_log[Len(solver_log)].sat
              /\ result.depth = solver_log[Len(solver_log)].depth
              /\ result.solver_calls = result.depth - minimum_depth + 1
              /\ ~use_edge_coloring => result.solver_calls = result.depth + 1

\* A linear direct-scheduling search returned depth 2 after three calls.
C20_Witness ==
    /\ Searched
    /\ use_linear_search
    /\ ~use_edge_coloring
    /\ result.depth = 2
    /\ result.solver_calls = 3

(* C21: for every graph, each encoder and each search strategy, the returned
   depth and the returned solver_calls are the same with symmetry breaking
   enabled and with it disabled: a run returns the depth and the solver_calls
   the synthesis computes for its arguments, and those it computes for the
   same arguments with the flag flipped. *)
C21_SymmetryBreakingKeepsDepthAndCalls ==
    pc = "done" =>
        /\ result.depth = SynthesizeDepth(use_edge_coloring, use_linear_search,
                              adjacency_matrix, use_symmetry_breaking)
        /\ result.solver_calls = SynthesizeCalls(use_edge_coloring,
                                     use_linear_search, adjacency_matrix,
                                     use_symmetry_breaking)
        /\ result.depth = SynthesizeDepth(use_edge_coloring, use_linear_search,
                              adjacency_matrix, ~use_symmetry_breaking)
        /\ result.solver_calls = SynthesizeCalls(use_edge_coloring,
                                     use_linear_search, adjacency_matrix,
                                     ~use_symmetry_breaking)

\* A binary edge-colouring search with symmetry breaking returned depth 3 for
\* the triangle after more than one solver call.
C21_Witness ==
    /\ Searched
    /\ use_symmetry_breaking
    /\ use_edge_coloring
    /\ ~use_linear_search
    /\ Cardinality(GraphEdges(adjacency_matrix)) = 3
    /\ result.depth = 3
    /\ result.solver_calls >= 2

\* The neighbours of node v in the graph of matrix m.
Neighbours(m, v) == {u \in Nodes(Len(m)) : {u, v} \in GraphEdges(m)}

\* The lowest-indexed node of maximum degree.
LowestMaxDegreeNode(m) ==
    CHOOSE v \in Nodes(Len(m)) :
        /\ Cardinality(Neighbours(m, v)) = MaxDegree(m)
        /\ \A u \in 0..(v - 1) : Cardinality(Neighbours(m, u)) < MaxDegree(m)

\* In mapping the edges at the lowest-indexed node of maximum degree have the
\* layers 0, 1, 2, ... in ascending order of the neighbour's index.
FirstClusterInOrder(m, mapping) ==
    LET v == LowestMaxDegreeNode(m)
    IN  \A u \in Neighbours(m, v) :
            LayerOf(mapping, {v, u})
            = Cardinality({w \in Neighbours(m, v) : w < u})

(* C22: with the edge-colouring encoder and symmetry breaking enabled, in
   every returned mapping (the one the search hands back and every non-empty
   one the binary search has cached) the edges incident to the lowest-indexed
   node of maximum degree are assigned the layers 0, 1, ..., deg-1 in
   ascending order of the neighbour's index. *)
C22_FirstClusterFixed ==
    (use_edge_coloring /\ use_symmetry_breaking /\ HasEdge) =>
        /\ depth_optimal_mapping # <<>> =>
              FirstClusterInOrder(adjacency_matrix, depth_optimal_mapping)
        /\ \A d \in DOMAIN mappings_at_depth :
              mappings_at_depth[d] # <<>> =>
                  FirstClusterInOrder(adjacency_matrix, mappings_at_depth[d])

\* A returned mapping for the path 0 - 1 - 2: node 1 has the maximum degree
\* and its edges to 0 and 2 have the layers 0 and 1.
C22_Witness ==
    /\ Searched
    /\ use_edge_coloring
    /\ use_symmetry_breaking
    /\ LowestMaxDegreeNode(adjacency_matrix) = 1
    /\ LayerOf(depth_optimal_mapping, {1, 0}) = 0
    /\ LayerOf(depth_optimal_mapping, {1, 2}) = 1

\* The edge-chromatic number of the graph of matrix m.
EdgeChromaticNumber(m) ==
    CHOOSE k \in 0..(Len(m) + 1) :
        /\ ColourableWith(GraphEdges(m), k)
        /\ \A j \in 0..(k - 1) : ~ColourableWith(GraphEdges(m), j)

(* C23: in _binary_search (both encoders), at the start of every pass of the
   loop left_bound_depth <= edge-chromatic number <= right_bound_depth; hence
   the depth the pass probes lies between the bounds and the interval is not
   empty. *)
C23_BoundsBracketChromaticNumber ==
    (pc = "binary" /\ ~found_optimal_depth) =>
        LET chi == EdgeChromaticNumber(adjacency_matrix)
            current == MidPoint(left_bound_depth, right_bound_depth)
        IN  /\ left_bound_depth <= chi
            /\ chi <= right_bound_depth
            /\ left_bound_depth <= current
            /\ current <= right_bound_depth
            /\ left_bound_depth <= right_bound_depth

\* A pass starts after both bounds have moved and the interval has shrunk to
\* the edge-chromatic number alone.
C23_Witness ==
    /\ pc = "binary"
    /\ left_bound_depth > LowerBound(use_edge_coloring, adjacency_matrix)
    /\ right_bound_depth < Len(adjacency_matrix)
    /\ left_bound_depth = right_bound_depth
    /\ left_bound_depth = EdgeChromaticNumber(adjacency_matrix)

(* C24: the mapping returned by a successful search uses every available
   layer: for a graph with at least one edge the mapping has as many layers as
   the returned depth d, and each layer index 0..d-1 holds at least one
   edge. *)
C24_EveryLayerUsed ==
    Searched =>
        LET mapping == depth_optimal_mapping
        IN  /\ Len(mapping) = result.depth
            /\ {mapping[k].color : k \in 1..Len(mapping)} = 0..(result.depth - 1)
            /\ \A k \in 1..Len(mapping) : mapping[k].edges # <<>>
            /\ \A x \in 1..Len(mapping) : \A y \in 1..Len(mapping) :
                  mapping[x].color = mapping[y].color => x = y

\* A search returned depth 3 with a mapping of three layers.
C24_Witness ==
    /\ Searched
    /\ result.depth = 3
    /\ Len(depth_optimal_mapping) = 3

(* C25: for every graph and every depth d the direct-scheduling instance is
   satisfiable iff the edge-colouring instance is, with and without symmetry
   breaking: the identity variables of the non-edge pairs never make a
   feasible depth infeasible.  Every probe a run made had the outcome the
   other encoder gives. *)
C25_EncodersEquisatisfiable ==
    /\ InputsRead =>
          \A d \in Depths(adjacency_matrix) : \A sym \in BOOLEAN :
              Satisfiable(FALSE, adjacency_matrix, d, sym)
              <=> Satisfiable(TRUE, adjacency_matrix, d, sym)
    /\ (pc = "done" /\ HasEdge) =>
          \A k \in 1..Len(solver_log) :
              solver_log[k].sat
              <=> Satisfiable(~use_edge_coloring, adjacency_matrix,
                              solver_log[k].depth, use_symmetry_breaking)

\* A direct-scheduling run with symmetry breaking, on a graph with a node pair
\* that has no edge, saw a failed and a successful probe.
C25_Witness ==
    /\ Searched
    /\ ~use_edge_coloring
    /\ use_symmetry_breaking
    /\ IdentityKeySet(adjacency_matrix) # {}
    /\ \E k \in 1..Len(solver_log) : solver_log[k].sat
    /\ \E k \in 1..Len(solver_log) : ~solver_log[k].sat

=============================================================================
